---- MODULE Spec2Model ----
(***************************************************************************)
(* A model of virtualization-rs: the typestate builders, the fallible      *)
(* foreign constructors, the VM configuration and the VM lifecycle, as      *)
(* written in src/src/base.rs and src/src/virtualization/*.rs.              *)
(*                                                                          *)
(* A builder field of type () is the empty tuple Unit; a field of type T    *)
(* holding v is the one-element tuple <<v>>, so the type parameter of a     *)
(* field can be read off its value.  Foreign (Objective-C) objects are      *)
(* records; the nil reference is NIL.                                       *)
(***************************************************************************)
EXTENDS Integers, Sequences, FiniteSets, TLC

VARIABLES
    target,      \* which call chain this run of the program is building
    calls,       \* the setter calls made on the chain since new(), in order
    builder,     \* the builder value at the end of the chain (its fields)
    live,        \* FALSE once build()/create() has consumed the builder
    initArgs,    \* the message handed to the foreign initializer by build()
    built,       \* what build()/create() returned
    conf,        \* the VZVirtualMachineConfiguration the client holds
    validation,  \* the last validate_with_error: platform verdict and result
    vm,          \* the VZVirtualMachine the client holds
    vmState,     \* the foreign VM's state code (read by state())
    starts,      \* one entry per start_with_completion_handler call
    stop,        \* the last request_stop_with_error: verdict and result
    handles,     \* owned handles (StrongPtr wrappers) of the handle scenario
    refcount,    \* retain count of the foreign object the handles refer to
    main,        \* examples/simplevm.rs: where main() is and what it has done
    text,        \* a Rust string and the NSString made from it
    query        \* a foreign state code and what state() made of it

bvars == <<target, calls, builder, live, initArgs, built>>
vmvars == <<conf, validation, vm, vmState, starts, stop>>
hvars == <<handles, refcount>>
xvars == <<main, text, query>>
vars == <<target, calls, builder, live, initArgs, built,
          conf, validation, vm, vmState, starts, stop, handles, refcount,
          main, text, query>>

----------------------------------------------------------------------------
(* Bounds of the model *)

MaxCalls == 4        \* setter calls on one typestate builder chain
MaxConfCalls == 2    \* setter calls on one VM configuration builder chain
MaxErrorCode == 2    \* platform error codes are 1..MaxErrorCode
MaxStarts == 2       \* start_with_completion_handler calls on one VM
MaxHandles == 3      \* owned handles on one foreign object
MaxIdCalls == 2      \* id()/deref uses of one handle
MaxStrLen == 3       \* characters of a string handed to NSString::new
MaxStateCode == 60   \* foreign state codes are -MaxStateCode..MaxStateCode
MaxSleeps == 2       \* sleep(100) calls counted in the reference flow's loop

----------------------------------------------------------------------------
(* Values *)

Unit == << >>
Some(v) == <<v>>
Present(f) == f # Unit

\* base.rs: NIL, the null reference
NIL == [class |-> "nil"]

\* objc BOOL
YES == TRUE
NO == FALSE

\* Filesystem paths are sequences of components; an absolute path starts
\* with "/".
Paths == { <<"/", "img">>, <<"img">> }
Cwd == <<"/", "cwd">>
\* Text is a sequence of Unicode scalar values; "console=hvc0" is
ConsoleHvc0 == <<99, 111, 110, 115, 111, 108, 101, 61, 104, 118, 99, 48>>
CommandLines == { ConsoleHvc0, << >> }
FileHandles == { "stdin", "stdout" }
ErrorCodes == 1..MaxErrorCode

None == [tag |-> "None"]
Ok(v) == [tag |-> "Ok", val |-> v]
Err(e) == [tag |-> "Err", val |-> e]
\* the value an infallible build() returns
Built(v) == [tag |-> "Built", val |-> v]

----------------------------------------------------------------------------
(* base.rs: foreign value adapters *)

\* the bytes of a Rust str: the UTF-8 encoding of its scalar values
Utf8Encode(cps) ==
    LET one(c) ==
            IF c < 128 THEN <<c>>
            ELSE IF c < 2048 THEN <<192 + (c \div 64), 128 + (c % 64)>>
            ELSE IF c < 65536
                 THEN <<224 + (c \div 4096), 128 + ((c \div 64) % 64), 128 + (c % 64)>>
            ELSE <<240 + (c \div 262144), 128 + ((c \div 4096) % 64),
                   128 + ((c \div 64) % 64), 128 + (c % 64)>>
        enc[s \in Seq(Nat)] ==
            IF s = << >> THEN << >> ELSE one(Head(s)) \o enc[Tail(s)]
    IN  enc[cps]

\* the decoding of UTF-8 bytes (the platform's initWithBytes: with the
\* UTF-8 encoding, and std::str::from_utf8): the scalar values, ended by
\* Malformed where the bytes stop being UTF-8
Malformed == -1

Utf8Decode(bytes) ==
    LET dec[bs \in Seq(Nat)] ==
            IF bs = << >> THEN << >>
            ELSE LET b == Head(bs)
                     n == IF b < 128 THEN 1
                          ELSE IF b >= 192 /\ b < 224 THEN 2
                          ELSE IF b >= 224 /\ b < 240 THEN 3
                          ELSE IF b >= 240 /\ b < 248 THEN 4
                          ELSE 0
                 IN  IF \/ n = 0
                        \/ Len(bs) < n
                        \/ \E i \in 2..n : bs[i] \notin 128..191
                     THEN <<Malformed>>
                     ELSE <<CASE n = 1 -> b
                              [] n = 2 -> (b - 192) * 64 + (bs[2] - 128)
                              [] n = 3 -> (b - 224) * 4096 + (bs[2] - 128) * 64
                                          + (bs[3] - 128)
                              [] n = 4 -> (b - 240) * 262144 + (bs[2] - 128) * 4096
                                          + (bs[3] - 128) * 64 + (bs[4] - 128)>>
                          \o dec[SubSeq(bs, n + 1, Len(bs))]
    IN  dec[bytes]

IsUtf8(cps) == \A i \in 1..Len(cps) : cps[i] # Malformed

\* an NSString holds UTF-16 code units: a scalar value above 0xFFFF is a
\* surrogate pair
Utf16Encode(cps) ==
    LET one(c) ==
            IF c < 65536 THEN <<c>>
            ELSE <<55296 + ((c - 65536) \div 1024), 56320 + ((c - 65536) % 1024)>>
        enc[s \in Seq(Nat)] ==
            IF s = << >> THEN << >> ELSE one(Head(s)) \o enc[Tail(s)]
    IN  enc[cps]

Utf16Decode(units) ==
    LET dec[us \in Seq(Nat)] ==
            IF us = << >> THEN << >>
            ELSE IF Len(us) >= 2 /\ us[1] \in 55296..56319 /\ us[2] \in 56320..57343
                 THEN <<65536 + (us[1] - 55296) * 1024 + (us[2] - 56320)>>
                      \o dec[SubSeq(us, 3, Len(us))]
                 ELSE <<Head(us)>> \o dec[Tail(us)]
    IN  dec[units]

\* NSString::new: initWithBytes:length:encoding: on s.as_ptr(), s.len()
\* and the UTF-8 encoding
NSString_new(s) ==
    LET bytes == Utf8Encode(s)
        length == Len(bytes)
        decoded == Utf8Decode(SubSeq(bytes, 1, length))
    IN  IF IsUtf8(decoded)
        THEN [class |-> "NSString", units |-> Utf16Encode(decoded)]
        ELSE NIL

\* NSString::len: lengthOfBytesUsingEncoding: with the UTF-8 encoding
len_in_code_units(self) == Len(self.units)
NSString_len(self) == Len(Utf8Encode(Utf16Decode(self.units)))

\* NSString::as_str: the first len() bytes of the NUL-terminated UTF8String
\* buffer, through std::str::from_utf8(..).unwrap()
NSString_as_str(self) ==
    LET bytes == Utf8Encode(Utf16Decode(self.units)) \o <<0>>
        len == NSString_len(self)
        bytes_slice == SubSeq(bytes, 1, len)
        decoded == Utf8Decode(bytes_slice)
    IN  IF IsUtf8(decoded) THEN [tag |-> "Str", val |-> decoded]
        ELSE [tag |-> "Panic"]

\* NSURL::file_url_with_path: a relative path is kept relative to the
\* current directory (the base URL), an absolute one has no base.
NSURL_file_url_with_path(path, is_directory) ==
    [class |-> "NSURL", scheme |-> "file", path |-> path,
     base |-> IF Len(path) > 0 /\ Head(path) = "/" THEN << >> ELSE Cwd,
     isDirectory |-> is_directory]

\* NSURL::url_with_string: the string is taken as it is, no scheme is added
NSURL_url_with_string(url) ==
    [class |-> "NSURL", scheme |-> "", path |-> url, base |-> << >>,
     isDirectory |-> FALSE]

\* NSURL::absolute_url: the path resolved against the base
NSURL_absolute_url(self) ==
    [self EXCEPT !.path = self.base \o self.path, !.base = << >>]

\* NSError::nil
NSError_nil == NIL

\* NSError::code: a message sent to nil answers 0
NSError_code(self) == IF self = NIL THEN 0 ELSE self.code

\* The platform's NSError object
NSErrorObject(c) == [class |-> "NSError", code |-> c]

----------------------------------------------------------------------------
(* The foreign side of a fallible call.  The platform's convention: on     *)
(* success the primary value is returned and the error slot is left alone;  *)
(* on failure the primary value is nil/NO and, when the caller passed the   *)
(* address of an error slot, an NSError is written into it.  slot is the    *)
(* content of the caller's error variable, slotPassed whether its address   *)
(* (rather than its content) was handed over.                               *)

ForeignFallible(value, failure, slot, slotPassed, fails, code) ==
    [ret  |-> IF fails THEN failure ELSE value,
     slot |-> IF fails /\ slotPassed THEN NSErrorObject(code) ELSE slot]

\* `if error.code() != 0 { Err(error) } else { Ok(x) }`
ResultAlwaysOk(error, x) == Ok(x)
ResultAlwaysErr(error, x) == Err(error)
ResultOfCode(error, x) ==
    IF NSError_code(error) # 0 THEN Err(error) ELSE Ok(x)

----------------------------------------------------------------------------
(* boot_loader.rs: VZLinuxBootLoaderBuilder *)

VZLinuxBootLoaderBuilder_new ==
    [kernel_url |-> Unit, initial_ramdisk_url |-> Unit, command_line |-> Unit]

kernel_url_dropping(self, v) ==
    [kernel_url |-> Some(v),
     initial_ramdisk_url |-> self.initial_ramdisk_url,
     command_line |-> Unit]
VZLinuxBootLoaderBuilder_kernel_url(self, v) ==
    [kernel_url |-> Some(v),
     initial_ramdisk_url |-> self.initial_ramdisk_url,
     command_line |-> self.command_line]

initial_ramdisk_url_keeping_first(self, v) ==
    [kernel_url |-> self.kernel_url,
     initial_ramdisk_url |->
         IF Present(self.initial_ramdisk_url) THEN self.initial_ramdisk_url
         ELSE Some(v),
     command_line |-> self.command_line]
VZLinuxBootLoaderBuilder_initial_ramdisk_url(self, v) ==
    [kernel_url |-> self.kernel_url,
     initial_ramdisk_url |-> Some(v),
     command_line |-> self.command_line]

VZLinuxBootLoaderBuilder_command_line(self, v) ==
    [kernel_url |-> self.kernel_url,
     initial_ramdisk_url |-> self.initial_ramdisk_url,
     command_line |-> Some(v)]

\* build is defined on VZLinuxBootLoaderBuilder<String, String, String> only
VZLinuxBootLoaderBuilder_build_defined(self) ==
    /\ Present(self.kernel_url)
    /\ Present(self.initial_ramdisk_url)
    /\ Present(self.command_line)

\* VZLinuxBootLoader::new
VZLinuxBootLoader_new(kernel_url, initial_ramdisk_url, command_line) ==
    [class |-> "VZLinuxBootLoader",
     kernelURL |-> NSURL_absolute_url(NSURL_file_url_with_path(kernel_url, FALSE)),
     initialRamdiskURL |->
         NSURL_absolute_url(NSURL_file_url_with_path(initial_ramdisk_url, FALSE)),
     commandLine |-> NSString_new(command_line)]

VZLinuxBootLoaderBuilder_build(self) ==
    VZLinuxBootLoader_new(self.kernel_url[1], self.initial_ramdisk_url[1],
                          self.command_line[1])

----------------------------------------------------------------------------
(* serial_port.rs: VZFileHandleSerialPortAttachmentBuilder *)

VZFileHandleSerialPortAttachmentBuilder_new ==
    [file_handle_for_reading |-> Unit, file_handle_for_writing |-> Unit]

file_handle_for_reading_clearing_writing(self, h) ==
    [file_handle_for_reading |-> Some(h), file_handle_for_writing |-> Unit]
VZFileHandleSerialPortAttachmentBuilder_file_handle_for_reading(self, h) ==
    [file_handle_for_reading |-> Some(h),
     file_handle_for_writing |-> self.file_handle_for_writing]

VZFileHandleSerialPortAttachmentBuilder_file_handle_for_writing(self, h) ==
    [file_handle_for_reading |-> self.file_handle_for_reading,
     file_handle_for_writing |-> Some(h)]

\* build is defined on the builder <NSFileHandle, NSFileHandle> only
VZFileHandleSerialPortAttachmentBuilder_build_defined(self) ==
    /\ Present(self.file_handle_for_reading)
    /\ Present(self.file_handle_for_writing)

\* VZFileHandleSerialPortAttachment::new
VZFileHandleSerialPortAttachment_new(r, w) ==
    [class |-> "VZFileHandleSerialPortAttachment",
     fileHandleForReading |-> r, fileHandleForWriting |-> w]

VZFileHandleSerialPortAttachmentBuilder_build(self) ==
    VZFileHandleSerialPortAttachment_new(self.file_handle_for_reading[1],
                                         self.file_handle_for_writing[1])

----------------------------------------------------------------------------
(* storage_device.rs: VZDiskImageStorageDeviceAttachmentBuilder *)

\* VZDiskImageCachingMode: automatic, uncached, cached
CachingModes == { 0, 1, 2 }
\* VZDiskImageSynchronizationMode: full, fsync, none
SynchronizationModes == { 1, 2, 3 }

VZDiskImageStorageDeviceAttachmentBuilder_new ==
    [path |-> Unit, read_only |-> TRUE,
     caching_mode |-> Unit, synchronization_mode |-> Unit]

path_resetting_read_only(self, v) ==
    [path |-> Some(v), read_only |-> TRUE,
     caching_mode |-> self.caching_mode,
     synchronization_mode |-> self.synchronization_mode]
VZDiskImageStorageDeviceAttachmentBuilder_path(self, v) ==
    [path |-> Some(v), read_only |-> self.read_only,
     caching_mode |-> self.caching_mode,
     synchronization_mode |-> self.synchronization_mode]

VZDiskImageStorageDeviceAttachmentBuilder_read_only(self, v) ==
    [path |-> self.path, read_only |-> v,
     caching_mode |-> self.caching_mode,
     synchronization_mode |-> self.synchronization_mode]

VZDiskImageStorageDeviceAttachmentBuilder_caching_mode(self, v) ==
    [path |-> self.path, read_only |-> self.read_only,
     caching_mode |-> Some(v),
     synchronization_mode |-> self.synchronization_mode]

VZDiskImageStorageDeviceAttachmentBuilder_synchronization_mode(self, v) ==
    [path |-> self.path, read_only |-> self.read_only,
     caching_mode |-> self.caching_mode,
     synchronization_mode |-> Some(v)]

\* the two impl blocks that define build: <String, bool, (), ()> and
\* <String, bool, VZDiskImageCachingMode, VZDiskImageSynchronizationMode>
VZDiskImageStorageDeviceAttachmentBuilder_build_defined(self) ==
    /\ Present(self.path)
    /\ Present(self.caching_mode) <=> Present(self.synchronization_mode)

\* The foreign object a successful disk-image initializer returns
DiskImageObject(url, read_only, caching_mode, synchronization_mode) ==
    [class |-> "VZDiskImageStorageDeviceAttachment", URL |-> url,
     readOnly |-> read_only, cachingMode |-> caching_mode,
     synchronizationMode |-> synchronization_mode]

\* VZDiskImageStorageDeviceAttachment::new; msg is the message sent, result
\* what the function returns.  fails and code are the platform's answer.
VZDiskImageStorageDeviceAttachment_new(path, read_only, fails, code) ==
    LET path_nsurl == NSURL_file_url_with_path(path, FALSE)
        error == NSError_nil
        out == ForeignFallible(
                   DiskImageObject(path_nsurl, read_only, Unit, Unit),
                   NIL, error, TRUE, fails, code)
    IN  [msg |-> [sel |-> "initWithURL:readOnly:error:", url |-> path_nsurl,
                  readOnly |-> read_only, cachingMode |-> Unit,
                  synchronizationMode |-> Unit,
                  fails |-> fails, code |-> IF fails THEN code ELSE 0,
                  slot |-> out.slot, ret |-> out.ret],
         result |-> ResultOfCode(out.slot, out.ret)]

\* VZDiskImageStorageDeviceAttachment::new_with_mode
VZDiskImageStorageDeviceAttachment_new_with_mode(path, read_only, caching_mode, synchronization_mode, fails, code) ==
    LET path_nsurl == NSURL_file_url_with_path(path, FALSE)
        error == NSError_nil
        out == ForeignFallible(
                   DiskImageObject(path_nsurl, read_only, Some(caching_mode),
                                   Some(synchronization_mode)),
                   NIL, error, TRUE, fails, code)
    IN  [msg |-> [sel |-> "initWithURL:readOnly:cachingMode:synchronizationMode:error:",
                  url |-> path_nsurl, readOnly |-> read_only,
                  cachingMode |-> Some(caching_mode),
                  synchronizationMode |-> Some(synchronization_mode),
                  fails |-> fails, code |-> IF fails THEN code ELSE 0,
                  slot |-> out.slot, ret |-> out.ret],
         result |-> ResultOfCode(out.slot, out.ret)]

\* the two build() variants
build_dropping_modes(self, fails, code) ==
    VZDiskImageStorageDeviceAttachment_new(
        self.path[1], IF self.read_only THEN YES ELSE NO, fails, code)
VZDiskImageStorageDeviceAttachmentBuilder_build(self, fails, code) ==
    LET read_only == IF self.read_only THEN YES ELSE NO
    IN  IF Present(self.caching_mode)
        THEN VZDiskImageStorageDeviceAttachment_new_with_mode(
                 self.path[1], read_only, self.caching_mode[1],
                 self.synchronization_mode[1], fails, code)
        ELSE VZDiskImageStorageDeviceAttachment_new(
                 self.path[1], read_only, fails, code)

----------------------------------------------------------------------------
(* boot_loader.rs: VZEFIVariableStore *)

\* VZEFIVariableStoreInitializationOption::allow_overwrite, 1 << 0
AllowOverwrite == 1

VZEFIVariableStoreInitializationOptions_new == [options |-> << >>]

VZEFIVariableStoreInitializationOptions_with(self, option) ==
    [options |-> Append(self.options, option)]

\* bitwise or of two naturals
RECURSIVE BitOr(_, _)
BitOr(a, b) ==
    IF a = 0 THEN b
    ELSE IF b = 0 THEN a
    ELSE (IF a % 2 = 1 \/ b % 2 = 1 THEN 1 ELSE 0) + 2 * BitOr(a \div 2, b \div 2)

\* into_raw: the fold of |= over the options
RECURSIVE FoldOr(_, _)
FoldOr(acc, opts) ==
    IF opts = << >> THEN acc ELSE FoldOr(BitOr(acc, Head(opts)), Tail(opts))

VZEFIVariableStoreInitializationOptions_into_raw(self) == FoldOr(0, self.options)

\* VZEFIVariableStore::create
VZEFIVariableStore_create(file_url, options, fails, code) ==
    LET url == NSURL_url_with_string(file_url)
        raw == VZEFIVariableStoreInitializationOptions_into_raw(options)
        error == NSError_nil
        out == ForeignFallible(
                   [class |-> "VZEFIVariableStore", URL |-> url, options |-> raw],
                   NIL, error, TRUE, fails, code)
    IN  [msg |-> [sel |-> "initCreatingVariableStoreAtURL:options:error:",
                  url |-> url, options |-> raw, fails |-> fails, code |-> IF fails THEN code ELSE 0,
                  slot |-> out.slot, ret |-> out.ret],
         result |-> ResultOfCode(out.slot, out.ret)]

----------------------------------------------------------------------------
(* network_device.rs, serial_port.rs, storage_device.rs: the device         *)
(* configurations that carry an attachment                                  *)

\* VZVirtioNetworkDeviceConfiguration::new: the platform's `new`, then
\* setAttachment: with the attachment passed
network_new_without_attachment(attachment) ==
    [class |-> "VZVirtioNetworkDeviceConfiguration",
     attachment |-> NIL, MACAddress |-> "default"]
VZVirtioNetworkDeviceConfiguration_new(attachment) ==
    LET p == [class |-> "VZVirtioNetworkDeviceConfiguration",
              attachment |-> NIL, MACAddress |-> "default"]
    IN  [p EXCEPT !.attachment = attachment]

\* VZVirtioNetworkDeviceConfiguration::set_attachment
set_attachment(self, attachment) == [self EXCEPT !.attachment = attachment]

\* VZVirtioNetworkDeviceConfiguration::set_mac_address
set_mac_address(self, mac) == [self EXCEPT !.MACAddress = mac]

\* VZVirtioConsoleDeviceSerialPortConfiguration::new: `new`, then
\* setAttachment:
VZVirtioConsoleDeviceSerialPortConfiguration_new(attachement) ==
    LET p == [class |-> "VZVirtioConsoleDeviceSerialPortConfiguration",
              attachment |-> NIL]
    IN  [p EXCEPT !.attachment = attachement]

\* VZVirtioBlockDeviceConfiguration::new: alloc, initWithAttachment:
VZVirtioBlockDeviceConfiguration_new(attachment) ==
    [class |-> "VZVirtioBlockDeviceConfiguration", attachment |-> attachment]

\* VZUSBMassStorageDeviceConfiguration::new: alloc, initWithAttachment:
VZUSBMassStorageDeviceConfiguration_new(attachment) ==
    [class |-> "VZUSBMassStorageDeviceConfiguration", attachment |-> attachment]

----------------------------------------------------------------------------
(* virtual_machine.rs: VZVirtualMachineConfigurationBuilder *)

\* NSArray::array_with_objects
NSArray_array_with_objects(objects) == [class |-> "NSArray", objects |-> objects]

\* VZVirtualMachineConfiguration::new: every property at the platform's
\* default (no boot loader, CPU count and memory size not set, no devices)
VZVirtualMachineConfiguration_new ==
    [class |-> "VZVirtualMachineConfiguration",
     bootLoader |-> NIL, CPUCount |-> Unit, memorySize |-> Unit,
     entropyDevices |-> << >>, memoryBalloonDevices |-> << >>,
     networkDevices |-> << >>, serialPorts |-> << >>,
     socketDevices |-> << >>, storageDevices |-> << >>]

set_boot_loader(self, boot_loader) == [self EXCEPT !.bootLoader = boot_loader]
set_cpu_count(self, cnt) == [self EXCEPT !.CPUCount = Some(cnt)]
set_memory_size(self, size) == [self EXCEPT !.memorySize = Some(size)]
set_entropy_devices(self, devices) ==
    [self EXCEPT !.entropyDevices = NSArray_array_with_objects(devices).objects]
set_memory_balloon_devices(self, devices) ==
    [self EXCEPT !.memoryBalloonDevices = NSArray_array_with_objects(devices).objects]
set_network_devices(self, devices) ==
    [self EXCEPT !.networkDevices = NSArray_array_with_objects(devices).objects]
set_serial_ports(self, devices) ==
    [self EXCEPT !.serialPorts = NSArray_array_with_objects(devices).objects]
set_socket_devices(self, devices) ==
    [self EXCEPT !.socketDevices = NSArray_array_with_objects(devices).objects]
set_storage_devices_appending(self, devices) ==
    [self EXCEPT !.storageDevices = @ \o NSArray_array_with_objects(devices).objects]
set_storage_devices(self, devices) ==
    [self EXCEPT !.storageDevices = NSArray_array_with_objects(devices).objects]

VZVirtualMachineConfigurationBuilder_new == [conf |-> VZVirtualMachineConfiguration_new]

\* build is defined on every VZVirtualMachineConfigurationBuilder: the
\* struct has no type parameters and build() has no precondition
VZVirtualMachineConfigurationBuilder_build_defined(self) == TRUE

VZVirtualMachineConfigurationBuilder_build(self) == self.conf

----------------------------------------------------------------------------
(* The builder call chains.  One run of the program follows one chain:     *)
(* new(), any setters in any order, then build() where the builder's type   *)
(* defines it.  A call the type system rejects is a disabled action.        *)

Targets == { "linux", "serial", "disk", "efi", "vmconf" }

CPUCounts == { 0, 4 }
\* memory sizes are counted in MiB (2048 MiB is the example's 2147483648 bytes)
MemorySizes == { 0, 2048 }
BootLoaders ==
    { VZLinuxBootLoader_new(<<"/", "img">>, <<"/", "img">>, ConsoleHvc0) }
DeviceVectors == { << >>, <<"dev1">>, <<"dev2", "dev1">> }
EfiPaths == { <<"/", "efi">> }

NewBuilder(t) ==
    CASE t = "linux"  -> VZLinuxBootLoaderBuilder_new
      [] t = "serial" -> VZFileHandleSerialPortAttachmentBuilder_new
      [] t = "disk"   -> VZDiskImageStorageDeviceAttachmentBuilder_new
      [] t = "efi"    -> VZEFIVariableStoreInitializationOptions_new
      [] t = "vmconf" -> VZVirtualMachineConfigurationBuilder_new

Call(op, arg) == [op |-> op, arg |-> arg]

CallBound(t) == IF t = "vmconf" THEN MaxConfCalls ELSE MaxCalls

\* a setter call on the chain: the builder is consumed and the new one kept
Setter(t, op, arg, next) ==
    /\ target = t
    /\ live
    /\ Len(calls) < CallBound(t)
    /\ builder' = next
    /\ calls' = Append(calls, Call(op, arg))
    /\ UNCHANGED <<target, live, initArgs, built>>
    /\ UNCHANGED <<vmvars, hvars, xvars>>

\* build()/create(): the builder is moved into the call
Build_by_reference(t, msg, result) ==
    /\ target = t
    /\ live
    /\ initArgs' = msg
    /\ built' = result
    /\ UNCHANGED <<target, calls, builder, live>>
    /\ UNCHANGED <<vmvars, hvars, xvars>>
Build(t, msg, result) ==
    /\ target = t
    /\ live
    /\ live' = FALSE
    /\ initArgs' = msg
    /\ built' = result
    /\ UNCHANGED <<target, calls, builder>>
    /\ UNCHANGED <<vmvars, hvars, xvars>>

kernel_url ==
    \E v \in Paths :
        Setter("linux", "kernel_url", v, VZLinuxBootLoaderBuilder_kernel_url(builder, v))

initial_ramdisk_url ==
    \E v \in Paths :
        Setter("linux", "initial_ramdisk_url", v,
               VZLinuxBootLoaderBuilder_initial_ramdisk_url(builder, v))

command_line ==
    \E v \in CommandLines :
        Setter("linux", "command_line", v,
               VZLinuxBootLoaderBuilder_command_line(builder, v))

linux_build ==
    /\ target = "linux"
    /\ VZLinuxBootLoaderBuilder_build_defined(builder)
    /\ Build("linux", None, Built(VZLinuxBootLoaderBuilder_build(builder)))

file_handle_for_reading ==
    \E h \in FileHandles :
        Setter("serial", "file_handle_for_reading", h,
               VZFileHandleSerialPortAttachmentBuilder_file_handle_for_reading(builder, h))

file_handle_for_writing ==
    \E h \in FileHandles :
        Setter("serial", "file_handle_for_writing", h,
               VZFileHandleSerialPortAttachmentBuilder_file_handle_for_writing(builder, h))

serial_build ==
    /\ target = "serial"
    /\ VZFileHandleSerialPortAttachmentBuilder_build_defined(builder)
    /\ Build("serial", None,
             Built(VZFileHandleSerialPortAttachmentBuilder_build(builder)))

path ==
    \E v \in Paths :
        Setter("disk", "path", v, VZDiskImageStorageDeviceAttachmentBuilder_path(builder, v))

read_only ==
    \E v \in BOOLEAN :
        Setter("disk", "read_only", v,
               VZDiskImageStorageDeviceAttachmentBuilder_read_only(builder, v))

caching_mode ==
    \E v \in CachingModes :
        Setter("disk", "caching_mode", v,
               VZDiskImageStorageDeviceAttachmentBuilder_caching_mode(builder, v))

synchronization_mode ==
    \E v \in SynchronizationModes :
        Setter("disk", "synchronization_mode", v,
               VZDiskImageStorageDeviceAttachmentBuilder_synchronization_mode(builder, v))

\* the platform's answer to the initializer: it succeeds, or fails with an
\* error code
disk_build ==
    /\ target = "disk"
    /\ VZDiskImageStorageDeviceAttachmentBuilder_build_defined(builder)
    /\ \E fails \in BOOLEAN, code \in ErrorCodes :
          LET r == VZDiskImageStorageDeviceAttachmentBuilder_build(builder, fails, code)
          IN  Build("disk", r.msg, r.result)

efi_with ==
    Setter("efi", "with", AllowOverwrite,
           VZEFIVariableStoreInitializationOptions_with(builder, AllowOverwrite))

efi_create ==
    /\ target = "efi"
    /\ \E file_url \in EfiPaths, fails \in BOOLEAN, code \in ErrorCodes :
          LET r == VZEFIVariableStore_create(file_url, builder, fails, code)
          IN  Build("efi", r.msg, r.result)

boot_loader ==
    \E v \in BootLoaders :
        Setter("vmconf", "boot_loader", v, [conf |-> set_boot_loader(builder.conf, v)])

cpu_count ==
    \E v \in CPUCounts :
        Setter("vmconf", "cpu_count", v, [conf |-> set_cpu_count(builder.conf, v)])

memory_size ==
    \E v \in MemorySizes :
        Setter("vmconf", "memory_size", v, [conf |-> set_memory_size(builder.conf, v)])

entropy_devices ==
    \E v \in DeviceVectors :
        Setter("vmconf", "entropy_devices", v,
               [conf |-> set_entropy_devices(builder.conf, v)])

memory_balloon_devices ==
    \E v \in DeviceVectors :
        Setter("vmconf", "memory_balloon_devices", v,
               [conf |-> set_memory_balloon_devices(builder.conf, v)])

network_devices ==
    \E v \in DeviceVectors :
        Setter("vmconf", "network_devices", v,
               [conf |-> set_network_devices(builder.conf, v)])

serial_ports ==
    \E v \in DeviceVectors :
        Setter("vmconf", "serial_ports", v, [conf |-> set_serial_ports(builder.conf, v)])

socket_devices ==
    \E v \in DeviceVectors :
        Setter("vmconf", "socket_devices", v,
               [conf |-> set_socket_devices(builder.conf, v)])

storage_devices ==
    \E v \in DeviceVectors :
        Setter("vmconf", "storage_devices", v,
               [conf |-> set_storage_devices(builder.conf, v)])

vmconf_build ==
    /\ target = "vmconf"
    /\ VZVirtualMachineConfigurationBuilder_build_defined(builder)
    /\ Build("vmconf", None, Built(VZVirtualMachineConfigurationBuilder_build(builder)))

----------------------------------------------------------------------------
(* Idle values of the parts a specification does not exercise *)

BuilderIdle ==
    /\ target = "none"
    /\ calls = << >>
    /\ builder = None
    /\ live = FALSE
    /\ initArgs = None
    /\ built = None

VMIdle ==
    /\ conf = None
    /\ validation = None
    /\ vm = None
    /\ vmState = 0
    /\ starts = << >>
    /\ stop = None

HandlesIdle ==
    /\ handles = << >>
    /\ refcount = 0

OthersIdle ==
    /\ main = None
    /\ text = None
    /\ query = None

----------------------------------------------------------------------------
(* SpecBuilders: the builder chains *)

InitBuilders ==
    /\ target \in Targets
    /\ calls = << >>
    /\ builder = NewBuilder(target)
    /\ live = TRUE
    /\ initArgs = None
    /\ built = None
    /\ VMIdle
    /\ HandlesIdle
    /\ OthersIdle

NextBuilders ==
    \/ kernel_url
    \/ initial_ramdisk_url
    \/ command_line
    \/ linux_build
    \/ file_handle_for_reading
    \/ file_handle_for_writing
    \/ serial_build
    \/ path
    \/ read_only
    \/ caching_mode
    \/ synchronization_mode
    \/ disk_build
    \/ efi_with
    \/ efi_create
    \/ boot_loader
    \/ cpu_count
    \/ memory_size
    \/ entropy_devices
    \/ memory_balloon_devices
    \/ network_devices
    \/ serial_ports
    \/ socket_devices
    \/ storage_devices
    \/ vmconf_build

SpecBuilders == InitBuilders /\ [][NextBuilders]_vars

----------------------------------------------------------------------------
(* virtual_machine.rs: validation, the virtual machine and its lifecycle *)

\* the foreign state codes, as state() matches them
StateStopped == 0
StateRunning == 1
StatePaused == 2
StateError == 3
StateStarting == 4
StatePausing == 5
StateResuming == 6

\* VZVirtualMachine::state: the match on the foreign code
state_swapping_running_paused(n) ==
    CASE n = 0 -> "Stopped"
      [] n = 1 -> "Paused"
      [] n = 2 -> "Running"
      [] n = 3 -> "Error"
      [] n = 4 -> "Starting"
      [] n = 5 -> "Pausing"
      [] n = 6 -> "Resuming"
      [] OTHER -> "Other"
state_defaulting_to_stopped(n) ==
    CASE n = 0 -> "Stopped"
      [] n = 1 -> "Running"
      [] n = 2 -> "Paused"
      [] n = 3 -> "Error"
      [] n = 4 -> "Starting"
      [] n = 5 -> "Pausing"
      [] n = 6 -> "Resuming"
      [] OTHER -> "Stopped"
state(n) ==
    CASE n = 0 -> "Stopped"
      [] n = 1 -> "Running"
      [] n = 2 -> "Paused"
      [] n = 3 -> "Error"
      [] n = 4 -> "Starting"
      [] n = 5 -> "Pausing"
      [] n = 6 -> "Resuming"
      [] OTHER -> "Other"

\* VZVirtualMachineConfiguration::validate_with_error.  The error argument
\* is &(*error.0), the address of the error variable, so the platform can
\* write into it.  accepted and code are the platform's answer.
validate_with_error_passing_content(self, accepted, code) ==
    LET error == NIL
        out == ForeignFallible(YES, NO, error, FALSE, ~accepted, code)
    IN  [msg |-> [sel |-> "validateWithError:", slot |-> out.slot, ret |-> out.ret],
         result |-> ResultOfCode(out.slot, out.ret)]
validate_with_error(self, accepted, code) ==
    LET error == NIL
        out == ForeignFallible(YES, NO, error, TRUE, ~accepted, code)
    IN  [msg |-> [sel |-> "validateWithError:", slot |-> out.slot, ret |-> out.ret],
         result |-> ResultOfCode(out.slot, out.ret)]

\* VZVirtualMachine::new: the configuration is taken as it is
VZVirtualMachine_new(c, queue) ==
    [tag |-> "VM", class |-> "VZVirtualMachine", conf |-> c, queue |-> queue]

\* the next start_with_completion_handler call's ordinal
NextCall(ss) == IF ss = << >> THEN 1 ELSE ss[Len(ss)].call + 1

\* a start request the platform has received, with its completion handler
StartRequest(k) ==
    [call |-> k, status |-> "requested", arg |-> NIL, invoked |-> 0, dumped |-> 0]

\* VZVirtualMachine::start_with_completion_handler: one
\* startWithCompletionHandler: message carrying the handler
start_sending_twice(ss) ==
    Append(Append(ss, StartRequest(NextCall(ss))), StartRequest(NextCall(ss)))
start_with_completion_handler(ss) == Append(ss, StartRequest(NextCall(ss)))

\* VZVirtualMachine::request_stop_with_error.  The error argument is
\* *error.0, the content of the error variable (nil), not its address: the
\* platform gets no slot to write its error into.
request_stop_with_error(self, accepted, code) ==
    LET error == NIL
        out == ForeignFallible(YES, NO, error, FALSE, ~accepted, code)
    IN  [msg |-> [sel |-> "requestStopWithError:", slot |-> out.slot, ret |-> out.ret],
         result |-> ResultOfCode(out.slot, out.ret)]

\* examples/simplevm.rs: the completion handler; an error is wrapped and
\* dumped, nothing else happens
completion_handler(req) ==
    [req EXCEPT !.invoked = @ + 1,
                !.dumped = IF req.arg # NIL THEN @ + 1 ELSE @]

Queues == { "second" }

\* the configurations a VZVirtualMachineConfigurationBuilder chain can hand
\* over: with or without a boot loader, with or without a CPU count
InitConfs ==
    { VZVirtualMachineConfigurationBuilder_build(b) :
        b \in { VZVirtualMachineConfigurationBuilder_new }
              \cup { [conf |-> set_boot_loader(VZVirtualMachineConfiguration_new, v)] :
                       v \in BootLoaders }
              \cup { [conf |-> set_cpu_count(
                                   set_boot_loader(VZVirtualMachineConfiguration_new, v), 4)] :
                       v \in BootLoaders } }

\* conf.validate_with_error(): the platform accepts or rejects; a
\* configuration without a boot loader is never accepted
validate ==
    /\ conf # None
    /\ \E accepted \in BOOLEAN, code \in ErrorCodes :
          /\ accepted => conf.bootLoader # NIL
          /\ LET r == validate_with_error(conf, accepted, code)
             IN  validation' = [tag |-> "Validated", accepted |-> accepted,
                                code |-> IF accepted THEN 0 ELSE code,
                                slot |-> r.msg.slot, ret |-> r.msg.ret,
                                result |-> r.result]
    /\ UNCHANGED <<conf, vm, vmState, starts, stop>>
    /\ UNCHANGED <<bvars, hvars, xvars>>

\* VZVirtualMachine::new(conf, queue): the configuration is moved in; the new
\* VM is Stopped
new_vm ==
    /\ conf # None
    /\ vm = None
    /\ \E queue \in Queues : vm' = VZVirtualMachine_new(conf, queue)
    /\ conf' = None
    /\ vmState' = StateStopped
    /\ UNCHANGED <<validation, starts, stop>>
    /\ UNCHANGED <<bvars, hvars, xvars>>

\* vm.start_with_completion_handler(handler)
start ==
    /\ vm # None
    /\ Len(starts) < MaxStarts
    /\ starts' = start_with_completion_handler(starts)
    /\ UNCHANGED <<conf, validation, vm, vmState, stop>>
    /\ UNCHANGED <<bvars, hvars, xvars>>

\* vm.request_stop_with_error(): the platform accepts a stop request of a
\* running VM, or rejects the request with an error.  The call sends
\* requestStopWithError: and returns; the VM's state is the hypervisor's to
\* change.
request_stop_stopping ==
    /\ vm # None
    /\ \E accepted \in BOOLEAN, code \in ErrorCodes :
          /\ accepted => vmState = StateRunning
          /\ LET r == request_stop_with_error(vm, accepted, code)
             IN  stop' = [tag |-> "Stop", accepted |-> accepted,
                          code |-> IF accepted THEN 0 ELSE code,
                          stateBefore |-> vmState,
                          slot |-> r.msg.slot, ret |-> r.msg.ret,
                          result |-> r.result]
          /\ vmState' = IF accepted THEN StateStopped ELSE vmState
    /\ UNCHANGED <<conf, validation, vm, starts>>
    /\ UNCHANGED <<bvars, hvars, xvars>>
request_stop ==
    /\ vm # None
    /\ \E accepted \in BOOLEAN, code \in ErrorCodes :
          /\ accepted => vmState = StateRunning
          /\ LET r == request_stop_with_error(vm, accepted, code)
             IN  stop' = [tag |-> "Stop", accepted |-> accepted,
                          code |-> IF accepted THEN 0 ELSE code,
                          stateBefore |-> vmState,
                          slot |-> r.msg.slot, ret |-> r.msg.ret,
                          result |-> r.result]
    /\ UNCHANGED <<conf, validation, vm, vmState, starts>>
    /\ UNCHANGED <<bvars, hvars, xvars>>

----------------------------------------------------------------------------
(* The hypervisor and the VM's queue: the transitions the documentation of  *)
(* VZVirtualMachineState describes, driven by the platform.                 *)

\* a start request of a stopped VM is taken up: the VM is Starting
HvBeginStart ==
    /\ vmState = StateStopped
    /\ \E i \in 1..Len(starts) :
          /\ starts[i].status = "requested"
          /\ starts' = [starts EXCEPT ![i].status = "starting"]
    /\ vmState' = StateStarting
    /\ UNCHANGED <<conf, validation, vm, stop>>
    /\ UNCHANGED <<bvars, hvars, xvars>>

\* a start request of a VM that is not stopped is refused: its handler is
\* queued with an error and the state stays
HvRejectStart ==
    /\ vmState # StateStopped
    /\ \E i \in 1..Len(starts), code \in ErrorCodes :
          /\ starts[i].status = "requested"
          /\ starts' = [starts EXCEPT ![i].status = "completed",
                                      ![i].arg = NSErrorObject(code)]
    /\ UNCHANGED <<conf, validation, vm, vmState, stop>>
    /\ UNCHANGED <<bvars, hvars, xvars>>

\* the guest is up: the VM is Running and the handler is queued with nil
HvStartSucceeds ==
    /\ vmState = StateStarting
    /\ \E i \in 1..Len(starts) :
          /\ starts[i].status = "starting"
          /\ starts' = [starts EXCEPT ![i].status = "completed", ![i].arg = NIL]
    /\ vmState' = StateRunning
    /\ UNCHANGED <<conf, validation, vm, stop>>
    /\ UNCHANGED <<bvars, hvars, xvars>>

\* the start fails: the VM is in Error and the handler is queued with the
\* error
HvStartFails ==
    /\ vmState = StateStarting
    /\ \E i \in 1..Len(starts), code \in ErrorCodes :
          /\ starts[i].status = "starting"
          /\ starts' = [starts EXCEPT ![i].status = "completed",
                                      ![i].arg = NSErrorObject(code)]
    /\ vmState' = StateError
    /\ UNCHANGED <<conf, validation, vm, stop>>
    /\ UNCHANGED <<bvars, hvars, xvars>>

\* the queue runs a queued completion handler
QueueRunsHandler ==
    /\ \E i \in 1..Len(starts) :
          /\ starts[i].status = "completed"
          /\ starts[i].invoked = 0
          /\ starts' = [starts EXCEPT ![i] = completion_handler(starts[i])]
    /\ UNCHANGED <<conf, validation, vm, vmState, stop>>
    /\ UNCHANGED <<bvars, hvars, xvars>>

\* the guest has shut down: the VM is Stopped
HvGuestStops ==
    /\ vmState = StateRunning
    /\ vmState' = StateStopped
    /\ UNCHANGED <<conf, validation, vm, starts, stop>>
    /\ UNCHANGED <<bvars, hvars, xvars>>

\* the running VM meets an internal error
HvInternalError ==
    /\ vmState = StateRunning
    /\ vmState' = StateError
    /\ UNCHANGED <<conf, validation, vm, starts, stop>>
    /\ UNCHANGED <<bvars, hvars, xvars>>

----------------------------------------------------------------------------
(* SpecVM: a client of the library and the hypervisor *)

InitVM ==
    /\ BuilderIdle
    /\ HandlesIdle
    /\ OthersIdle
    /\ conf \in InitConfs
    /\ validation = None
    /\ vm = None
    /\ vmState = StateStopped
    /\ starts = << >>
    /\ stop = None

NextVM ==
    \/ validate
    \/ new_vm
    \/ start
    \/ request_stop
    \/ HvBeginStart
    \/ HvRejectStart
    \/ HvStartSucceeds
    \/ HvStartFails
    \/ QueueRunsHandler
    \/ HvGuestStops
    \/ HvInternalError

SpecVM == InitVM /\ [][NextVM]_vars

\* the hypervisor answers every start request and the queue runs every
\* queued handler
FairSpecVM ==
    /\ SpecVM
    /\ WF_vars(HvBeginStart \/ HvRejectStart)
    /\ WF_vars(HvStartSucceeds \/ HvStartFails)
    /\ WF_vars(QueueRunsHandler)

----------------------------------------------------------------------------
(* Owned handles: the wrappers around objc's StrongPtr (NSString, NSURL,    *)
(* NSArray, the device configurations, the VM).  refcount counts the        *)
(* ownership units the handles hold on the one foreign object they refer    *)
(* to; a handle records how it was acquired, how often its raw reference    *)
(* was exposed and how often it released.                                   *)

Object == [class |-> "VZLinuxBootLoader"]

Handle(how) == [obj |-> Object, how |-> how, alive |-> TRUE, ids |-> 0, releases |-> 0]

HandleState(hs, rc) == [handles |-> hs, refcount |-> rc]

\* StrongPtr::new(msg_send![class, new]): the allocation's ownership unit
\* is taken over, nothing is retained
StrongPtr_new(hs, rc) == HandleState(Append(hs, Handle("new")), rc + 1)

\* StrongPtr::retain(msg_send![...]): the query result is retained
StrongPtr_retain(hs, rc) == HandleState(Append(hs, Handle("retain")), rc + 1)

\* NSError(StrongPtr::new(err)) on a reference the platform still owns (the
\* error argument of the start completion handler, the error the platform
\* writes into the slot of a StrongPtr::new(nil) handle): the handle owns a
\* unit it was not given, nothing is retained
StrongPtr_new_borrowed(hs, rc) == HandleState(Append(hs, Handle("borrowed")), rc)

\* id() and dereference: `*self.0`, the raw reference is copied out
id_retaining(hs, rc, i) ==
    HandleState([hs EXCEPT ![i].ids = @ + 1], rc + 1)
id(hs, rc, i) ==
    HandleState([hs EXCEPT ![i].ids = @ + 1], rc)

\* the wrapper goes out of scope: its StrongPtr field releases
drop(hs, rc, i) ==
    HandleState([hs EXCEPT ![i].alive = FALSE, ![i].releases = @ + 1], rc - 1)

\* virtual_machine.rs: #[derive(Clone)] on VZVirtualMachine(StrongPtr); the
\* clone of the StrongPtr field retains the object
clone_copying_pointer(hs, rc, i) == HandleState(Append(hs, Handle("clone")), rc)
clone(hs, rc, i) == HandleState(Append(hs, Handle("clone")), rc + 1)

\* a wrapper handed by value to a constructor or setter: its raw reference
\* is sent to the receiving foreign object (setAttachment:,
\* initWithAttachment:, setBootLoader:, arrayWithObjects:count: and
\* set...Devices:, initWithConfiguration:queue:), which takes a unit of its
\* own for as long as it lives; the wrapper is dropped when the call
\* returns
hand_over_unretained(hs, rc, i) ==
    drop(Append(hs, Handle("foreign")), rc, i)
hand_over(hs, rc, i) ==
    LET kept == HandleState(Append(hs, Handle("foreign")), rc + 1)
    IN  drop(kept.handles, kept.refcount, i)

\* the wrappers of the library, as opposed to the units foreign objects hold
RustHandles(hs) ==
    { i \in 1..Len(hs) : hs[i].how \in { "new", "retain", "clone" } }

\* the first handle of a fresh object
handle_new ==
    /\ handles = << >>
    /\ LET n == StrongPtr_new(handles, refcount)
       IN  handles' = n.handles /\ refcount' = n.refcount
    /\ UNCHANGED <<bvars, vmvars, xvars>>

\* a handle from a query (objectAtIndex:, absoluteURL, ...)
handle_retain ==
    /\ Len(handles) < MaxHandles
    /\ \A i \in 1..Len(handles) : handles[i].how # "borrowed"
    /\ LET n == StrongPtr_retain(handles, refcount)
       IN  handles' = n.handles /\ refcount' = n.refcount
    /\ UNCHANGED <<bvars, vmvars, xvars>>

\* an NSError handle over the platform's error object
handle_borrowed ==
    /\ Len(handles) < MaxHandles
    /\ \A i \in 1..Len(handles) : handles[i].how = "borrowed"
    /\ LET n == StrongPtr_new_borrowed(handles, refcount)
       IN  handles' = n.handles /\ refcount' = n.refcount
    /\ UNCHANGED <<bvars, vmvars, xvars>>

handle_id ==
    /\ \E i \in 1..Len(handles) :
          /\ handles[i].alive
          /\ handles[i].how # "foreign"
          /\ handles[i].ids < MaxIdCalls
          /\ LET n == id(handles, refcount, i)
             IN  handles' = n.handles /\ refcount' = n.refcount
    /\ UNCHANGED <<bvars, vmvars, xvars>>

handle_drop ==
    /\ \E i \in 1..Len(handles) :
          /\ handles[i].alive
          /\ LET n == drop(handles, refcount, i)
             IN  handles' = n.handles /\ refcount' = n.refcount
    /\ UNCHANGED <<bvars, vmvars, xvars>>

\* a VZVirtualMachine is cloned
handle_clone ==
    /\ Len(handles) < MaxHandles
    /\ \E i \in RustHandles(handles) :
          /\ handles[i].alive
          /\ LET n == clone(handles, refcount, i)
             IN  handles' = n.handles /\ refcount' = n.refcount
    /\ UNCHANGED <<bvars, vmvars, xvars>>

\* a wrapper is passed by value to a constructor or setter
handle_hand_over ==
    /\ Len(handles) < MaxHandles
    /\ \E i \in RustHandles(handles) :
          /\ handles[i].alive
          /\ LET n == hand_over(handles, refcount, i)
             IN  handles' = n.handles /\ refcount' = n.refcount
    /\ UNCHANGED <<bvars, vmvars, xvars>>

InitHandles ==
    /\ BuilderIdle
    /\ VMIdle
    /\ OthersIdle
    /\ handles = << >>
    /\ refcount = 0

NextHandles ==
    \/ handle_new
    \/ handle_retain
    \/ handle_borrowed
    \/ handle_clone
    \/ handle_hand_over
    \/ handle_id
    \/ handle_drop

SpecHandles == InitHandles /\ [][NextHandles]_vars

----------------------------------------------------------------------------
(* virtual_machine.rs: state() on whatever code the foreign `state`         *)
(* message answers                                                          *)

StateCodes == (0 - MaxStateCode)..MaxStateCode

query_state ==
    /\ query # None
    /\ query.state = Unit
    /\ query' = [query EXCEPT !.state = Some(state(query.code))]
    /\ UNCHANGED <<bvars, vmvars, hvars, main, text>>

InitState ==
    /\ BuilderIdle
    /\ VMIdle
    /\ HandlesIdle
    /\ main = None
    /\ text = None
    /\ query \in { [code |-> n, state |-> Unit] : n \in StateCodes }

SpecState == InitState /\ [][query_state]_vars

----------------------------------------------------------------------------
(* SpecFallible: every fallible call of the library, the constructors of    *)
(* the builder chains and the calls on a configuration and on a VM          *)

SpecFallible == (InitBuilders \/ InitVM) /\ [][NextBuilders \/ NextVM]_vars

----------------------------------------------------------------------------
(* examples/simplevm.rs: main(), the reference flow.  main.pc is where the  *)
(* program is, main.events the library and dispatch calls it has made, in   *)
(* order, main.printed what it has written to standard output.              *)

\* VZVirtualMachine::supported: `b == YES` of the foreign isSupported
VZVirtualMachine_supported(b) == b = YES

\* std::fs::canonicalize of a path that exists: the absolute path
canonicalize(p) == IF Head(p) = "/" THEN p ELSE Cwd \o p

\* NSError::dump: the error's code and descriptions are printed
NSError_dump(e) == [text |-> "dump", code |-> NSError_code(e)]

\* the command line options
Opts ==
    [cpu : CPUCounts, memory_size : { 2048 }, command_line : { ConsoleHvc0 },
     kernel : Paths, disk : Paths, initrd : { <<"/", "img">> }]

\* main() after Opt::from_args()
MainStart(opt) ==
    [pc |-> "supported", opt |-> opt, isSupported |-> Unit, events |-> << >>,
     printed |-> << >>, boot_loader |-> None, serial |-> None,
     block_attachment |-> None, block |-> "none",
     sleeps |-> 0, error_released |-> FALSE]

\* `if !VZVirtualMachine::supported() { println!("not supported"); return; }`
supported_ignored(m, b) ==
    [m EXCEPT !.isSupported = Some(b), !.events = Append(@, "supported"),
              !.printed = IF ~VZVirtualMachine_supported(b)
                          THEN Append(@, [text |-> "not supported", code |-> 0])
                          ELSE @,
              !.pc = "devices"]
supported_or_return(m, b) ==
    IF ~VZVirtualMachine_supported(b)
    THEN [m EXCEPT !.isSupported = Some(b), !.events = Append(@, "supported"),
                   !.printed = Append(@, [text |-> "not supported", code |-> 0]),
                   !.pc = "returned"]
    ELSE [m EXCEPT !.isSupported = Some(b), !.events = Append(@, "supported"),
                   !.pc = "devices"]

\* `match ...build() { Ok(x) => x, Err(err) => { err.dump(); return; } }`
attachment_or_return(m, r) ==
    IF r.tag = "Err"
    THEN [m EXCEPT !.block_attachment = r,
                   !.events = Append(@, "VZDiskImageStorageDeviceAttachmentBuilder::build"),
                   !.printed = Append(@, NSError_dump(r.val)),
                   !.pc = "returned"]
    ELSE [m EXCEPT !.block_attachment = r,
                   !.events = Append(@, "VZDiskImageStorageDeviceAttachmentBuilder::build"),
                   !.pc = "conf"]

\* `match conf.validate_with_error() { Ok(_) => {...} Err(e) => { e.dump(); return; } }`
validated_err_ignored(m, r) ==
    [m EXCEPT !.events = Append(@, "validate_with_error"),
              !.printed = IF r.tag = "Err" THEN Append(@, NSError_dump(r.val)) ELSE @,
              !.pc = "create"]
validated_or_return(m, r) ==
    IF r.tag = "Err"
    THEN [m EXCEPT !.events = Append(@, "validate_with_error"),
                   !.printed = Append(@, NSError_dump(r.val)),
                   !.pc = "returned"]
    ELSE [m EXCEPT !.events = Append(@, "validate_with_error"),
                   !.pc = "create"]

\* lines 59-62: the platform answers isSupported
main_supported ==
    /\ main # None
    /\ main.pc = "supported"
    /\ \E b \in { YES, NO } : main' = supported_or_return(main, b)
    /\ UNCHANGED <<bvars, vmvars, hvars, text, query>>

\* lines 64-89: the boot loader, the serial port, the entropy and the memory
\* balloon device; canonicalize(..).unwrap() panics on a missing file
main_devices ==
    /\ main # None
    /\ main.pc = "devices"
    /\ \E found \in BOOLEAN :
          IF ~found
          THEN main' = [main EXCEPT !.pc = "panicked"]
          ELSE LET b0 == VZLinuxBootLoaderBuilder_new
                   b1 == VZLinuxBootLoaderBuilder_kernel_url(
                             b0, canonicalize(main.opt.kernel))
                   b2 == VZLinuxBootLoaderBuilder_initial_ramdisk_url(
                             b1, canonicalize(main.opt.initrd))
                   b3 == VZLinuxBootLoaderBuilder_command_line(b2, main.opt.command_line)
                   a0 == VZFileHandleSerialPortAttachmentBuilder_new
                   a1 == VZFileHandleSerialPortAttachmentBuilder_file_handle_for_reading(
                             a0, "stdin")
                   a2 == VZFileHandleSerialPortAttachmentBuilder_file_handle_for_writing(
                             a1, "stdout")
               IN  main' = [main EXCEPT
                       !.boot_loader = VZLinuxBootLoaderBuilder_build(b3),
                       !.serial = VZVirtioConsoleDeviceSerialPortConfiguration_new(
                                      VZFileHandleSerialPortAttachmentBuilder_build(a2)),
                       !.events = @ \o <<"VZLinuxBootLoaderBuilder::build",
                                         "VZFileHandleSerialPortAttachmentBuilder::build">>,
                       !.pc = "disk"]
    /\ UNCHANGED <<bvars, vmvars, hvars, text, query>>

\* lines 90-105: the disk attachment; the platform's initializer succeeds
\* or fails with an error code
main_disk ==
    /\ main # None
    /\ main.pc = "disk"
    /\ \E found \in BOOLEAN, fails \in BOOLEAN, code \in ErrorCodes :
          IF ~found
          THEN main' = [main EXCEPT !.pc = "panicked"]
          ELSE LET d0 == VZDiskImageStorageDeviceAttachmentBuilder_new
                   d1 == VZDiskImageStorageDeviceAttachmentBuilder_path(
                             d0, canonicalize(main.opt.disk))
                   r  == VZDiskImageStorageDeviceAttachmentBuilder_build(d1, fails, code)
               IN  main' = attachment_or_return(main, r.result)
    /\ UNCHANGED <<bvars, vmvars, hvars, text, query>>

\* lines 106-120: the block and network devices and the configuration
main_conf ==
    /\ main # None
    /\ main.pc = "conf"
    /\ LET block_device ==
               VZVirtioBlockDeviceConfiguration_new(main.block_attachment.val)
           network_device ==
               set_mac_address(
                   VZVirtioNetworkDeviceConfiguration_new(
                       [class |-> "VZNATNetworkDeviceAttachment"]),
                   "random")
           c0 == VZVirtualMachineConfigurationBuilder_new.conf
           c1 == set_boot_loader(c0, main.boot_loader)
           c2 == set_cpu_count(c1, main.opt.cpu)
           c3 == set_memory_size(c2, main.opt.memory_size)
           c4 == set_entropy_devices(
                     c3, <<[class |-> "VZVirtioEntropyDeviceConfiguration"]>>)
           c5 == set_memory_balloon_devices(
                     c4, <<[class |-> "VZVirtioTraditionalMemoryBalloonDeviceConfiguration"]>>)
           c6 == set_network_devices(c5, <<network_device>>)
           c7 == set_serial_ports(c6, <<main.serial>>)
           c8 == set_storage_devices(c7, <<block_device>>)
       IN  conf' = VZVirtualMachineConfigurationBuilder_build([conf |-> c8])
    /\ main' = [main EXCEPT
            !.events = Append(@, "VZVirtualMachineConfigurationBuilder::build"),
            !.pc = "validate"]
    /\ UNCHANGED <<validation, vm, vmState, starts, stop>>
    /\ UNCHANGED <<bvars, hvars, text, query>>

\* line 122: conf.validate_with_error(), answered by the platform
main_validate ==
    /\ main # None
    /\ main.pc = "validate"
    /\ \E accepted \in BOOLEAN, code \in ErrorCodes :
          LET r == validate_with_error(conf, accepted, code)
          IN  /\ validation' = [tag |-> "Validated", accepted |-> accepted,
                                code |-> IF accepted THEN 0 ELSE code,
                                slot |-> r.msg.slot, ret |-> r.msg.ret,
                                result |-> r.result]
              /\ main' = validated_or_return(main, r.result)
    /\ UNCHANGED <<conf, vm, vmState, starts, stop>>
    /\ UNCHANGED <<bvars, hvars, text, query>>

\* lines 124-145: the queue, the VM, and the block handed to the queue
main_create_vm ==
    /\ main # None
    /\ main.pc = "create"
    /\ vm' = VZVirtualMachine_new(conf, "second")
    /\ conf' = None
    /\ vmState' = StateStopped
    /\ main' = [main EXCEPT
            !.events = @ \o <<"dispatch_queue_create", "VZVirtualMachine::new",
                              "dispatch_async">>,
            !.block = "queued",
            !.pc = "loop"]
    /\ UNCHANGED <<validation, starts, stop>>
    /\ UNCHANGED <<bvars, hvars, text, query>>

\* lines 127-138: the queue runs the dispatched block, which sends the start
\* request with the completion handler
QueueRunsBlock ==
    /\ main # None
    /\ main.block = "queued"
    /\ starts' = start_with_completion_handler(starts)
    /\ main' = [main EXCEPT !.events = Append(@, "start_with_completion_handler"),
                            !.block = "done"]
    /\ UNCHANGED <<conf, validation, vm, vmState, stop>>
    /\ UNCHANGED <<bvars, hvars, text, query>>

\* lines 143-147: `loop { unsafe { sleep(100); } }`, the end of main
main_sleep ==
    /\ main # None
    /\ main.pc = "loop"
    /\ main.sleeps < MaxSleeps
    /\ main' = [main EXCEPT !.sleeps = @ + 1]
    /\ UNCHANGED <<bvars, vmvars, hvars, text, query>>

\* lines 128-133: the ownership units left on the platform's error object
\* when the completion handler returns.  The platform holds one unit while
\* it calls the handler; the handler wraps the argument with
\* NSError(StrongPtr::new(err)) and the handle is dropped at the end of the
\* `if`.
HandlerErrorUnits ==
    LET wrapped == StrongPtr_new_borrowed(<< >>, 1)
    IN  drop(wrapped.handles, wrapped.refcount, 1).refcount

\* after the handler has returned the platform releases the unit it holds
\* on the error it passed.  Releasing an object no unit is left on is
\* undefined: the release goes unnoticed or the process is terminated.
HvReleasesError ==
    /\ main # None
    /\ main.pc = "loop"
    /\ ~main.error_released
    /\ \E i \in 1..Len(starts) : starts[i].invoked = 1 /\ starts[i].arg # NIL
    /\ \E outcome \in (IF HandlerErrorUnits >= 1 THEN { "released" }
                        ELSE { "unnoticed", "terminated" }) :
          main' = [main EXCEPT !.error_released = TRUE,
                               !.pc = IF outcome = "terminated" THEN "terminated"
                                      ELSE @]
    /\ UNCHANGED <<bvars, vmvars, hvars, text, query>>

InitMain ==
    /\ BuilderIdle
    /\ VMIdle
    /\ HandlesIdle
    /\ text = None
    /\ query = None
    /\ main \in { MainStart(opt) : opt \in Opts }

\* the program, the VM's queue and the hypervisor; the one start request of
\* this flow reaches a stopped VM, so it is never refused
NextMain ==
    \/ main_supported
    \/ main_devices
    \/ main_disk
    \/ main_conf
    \/ main_validate
    \/ main_create_vm
    \/ main_sleep
    \/ QueueRunsBlock
    \/ HvReleasesError
    \/ HvBeginStart
    \/ HvStartSucceeds
    \/ HvStartFails
    \/ QueueRunsHandler
    \/ HvGuestStops
    \/ HvInternalError

SpecMain == InitMain /\ [][NextMain]_vars

----------------------------------------------------------------------------
(* SpecDevices: a client that makes one attachment-bearing device           *)
(* configuration and, on the network device, sets attachments and MAC       *)
(* addresses afterwards.  built holds the device, calls the calls made.     *)

DeviceTargets == { "network", "console", "block", "usb" }

\* the attachments the type parameter of each constructor admits
AttachmentsOf(t) ==
    CASE t = "network" ->
             { [class |-> "VZNATNetworkDeviceAttachment"],
               [class |-> "VZBridgedNetworkDeviceAttachment", interface |-> "en0"] }
      [] t = "console" ->
             { VZFileHandleSerialPortAttachment_new(r, w) :
                   r \in FileHandles, w \in FileHandles }
      [] t \in { "block", "usb" } ->
             { DiskImageObject(NSURL_file_url_with_path(p, FALSE), ro, Unit, Unit) :
                   p \in Paths, ro \in { YES, NO } }

device_new ==
    /\ target \in DeviceTargets
    /\ built = None
    /\ \E a \in AttachmentsOf(target) :
          /\ built' = Built(
                 CASE target = "network" -> VZVirtioNetworkDeviceConfiguration_new(a)
                   [] target = "console" ->
                          VZVirtioConsoleDeviceSerialPortConfiguration_new(a)
                   [] target = "block" -> VZVirtioBlockDeviceConfiguration_new(a)
                   [] target = "usb" -> VZUSBMassStorageDeviceConfiguration_new(a))
          /\ calls' = Append(calls, Call("new", a))
    /\ UNCHANGED <<target, builder, live, initArgs>>
    /\ UNCHANGED <<vmvars, hvars, xvars>>

device_set_attachment ==
    /\ target = "network"
    /\ built # None
    /\ Len(calls) < MaxCalls
    /\ \E a \in AttachmentsOf(target) :
          /\ built' = Built(set_attachment(built.val, a))
          /\ calls' = Append(calls, Call("set_attachment", a))
    /\ UNCHANGED <<target, builder, live, initArgs>>
    /\ UNCHANGED <<vmvars, hvars, xvars>>

device_set_mac_address ==
    /\ target = "network"
    /\ built # None
    /\ Len(calls) < MaxCalls
    /\ \E mac \in { "random", "zero" } :
          /\ built' = Built(set_mac_address(built.val, mac))
          /\ calls' = Append(calls, Call("set_mac_address", mac))
    /\ UNCHANGED <<target, builder, live, initArgs>>
    /\ UNCHANGED <<vmvars, hvars, xvars>>

InitDevices ==
    /\ target \in DeviceTargets
    /\ calls = << >>
    /\ builder = None
    /\ live = FALSE
    /\ initArgs = None
    /\ built = None
    /\ VMIdle
    /\ HandlesIdle
    /\ OthersIdle

SpecDevices ==
    InitDevices /\ [][\/ device_new
                      \/ device_set_attachment
                      \/ device_set_mac_address]_vars

----------------------------------------------------------------------------
(* SpecObserve: a client that holds a VM and reads state() and supported()  *)
(* between its start and stop requests and the hypervisor's transitions.    *)
(* query keeps what the last reads answered.                                *)

\* vm.state(): the foreign `state` message is sent and its answer matched
observe_state_resetting ==
    /\ vm # None
    /\ query # None
    /\ query' = [query EXCEPT !.code = vmState, !.state = Some(state(vmState))]
    /\ vmState' = StateStopped
    /\ UNCHANGED <<conf, validation, vm, starts, stop>>
    /\ UNCHANGED <<bvars, hvars, main, text>>
observe_state ==
    /\ vm # None
    /\ query # None
    /\ query' = [query EXCEPT !.code = vmState, !.state = Some(state(vmState))]
    /\ UNCHANGED <<bvars, vmvars, hvars, main, text>>

\* VZVirtualMachine::supported(): the class answers isSupported
observe_supported ==
    /\ query # None
    /\ \E b \in { YES, NO } :
          /\ query.supported \in { Unit, Some(VZVirtualMachine_supported(b)) }
          /\ query' = [query EXCEPT !.supported = Some(VZVirtualMachine_supported(b))]
    /\ UNCHANGED <<bvars, vmvars, hvars, main, text>>

InitObserve ==
    /\ BuilderIdle
    /\ HandlesIdle
    /\ main = None
    /\ text = None
    /\ conf = None
    /\ validation = None
    /\ vm \in { VZVirtualMachine_new(c, q) : c \in InitConfs, q \in Queues }
    /\ vmState = StateStopped
    /\ starts = << >>
    /\ stop = None
    /\ query = [code |-> StateStopped, state |-> Unit, supported |-> Unit]

SpecObserve ==
    InitObserve /\ [][\/ observe_state
                      \/ observe_supported
                      \/ start
                      \/ request_stop
                      \/ HvBeginStart
                      \/ HvRejectStart
                      \/ HvStartSucceeds
                      \/ HvStartFails
                      \/ QueueRunsHandler
                      \/ HvGuestStops
                      \/ HvInternalError]_vars


----------------------------------------------------------------------------
(* base.rs: a string through NSString *)

\* NUL, 'A', e acute, the euro sign, a smiley: one scalar value of each
\* UTF-8 length, and the C string terminator
ScalarValues == { 0, 65, 233, 8364, 128512 }

RECURSIVE StrsOfLen(_)
StrsOfLen(n) ==
    IF n = 0 THEN { << >> }
    ELSE { Append(s, c) : s \in StrsOfLen(n - 1), c \in ScalarValues }

Strs == UNION { StrsOfLen(n) : n \in 0..MaxStrLen }

text_new ==
    /\ text # None
    /\ text.ns = None
    /\ text' = [text EXCEPT !.ns = NSString_new(text.s)]
    /\ UNCHANGED <<bvars, vmvars, hvars, main, query>>

text_len ==
    /\ text # None
    /\ text.ns # None
    /\ text.len = Unit
    /\ text' = [text EXCEPT !.len = Some(NSString_len(text.ns))]
    /\ UNCHANGED <<bvars, vmvars, hvars, main, query>>

text_as_str ==
    /\ text # None
    /\ text.ns # None
    /\ text.str = Unit
    /\ text' = [text EXCEPT !.str = Some(NSString_as_str(text.ns))]
    /\ UNCHANGED <<bvars, vmvars, hvars, main, query>>

InitText ==
    /\ BuilderIdle
    /\ VMIdle
    /\ HandlesIdle
    /\ main = None
    /\ query = None
    /\ text \in { [s |-> s, ns |-> None, len |-> Unit, str |-> Unit] : s \in Strs }

NextText ==
    \/ text_new
    \/ text_len
    \/ text_as_str

SpecText == InitText /\ [][NextText]_vars

----------------------------------------------------------------------------
(* Properties of the builder chains *)

CalledOps == { calls[i].op : i \in 1..Len(calls) }

LinuxMandatory == { "kernel_url", "initial_ramdisk_url", "command_line" }
SerialMandatory == { "file_handle_for_reading", "file_handle_for_writing" }
ConfMandatory == { "boot_loader", "cpu_count", "memory_size" }

\* C1: on the Linux boot loader builder and on the serial attachment
\* builder, after any sequence of setter calls from new(), build() is
\* defined exactly when every mandatory setter has been called at least
\* once, in whatever order; so whatever build() returned was built from a
\* chain that called them all.
C1_BuildIffMandatorySupplied ==
    /\ target = "linux" =>
          /\ VZLinuxBootLoaderBuilder_build_defined(builder)
                 <=> LinuxMandatory \subseteq CalledOps
          /\ live => (ENABLED linux_build <=> LinuxMandatory \subseteq CalledOps)
          /\ built # None => LinuxMandatory \subseteq CalledOps
    /\ target = "serial" =>
          /\ VZFileHandleSerialPortAttachmentBuilder_build_defined(builder)
                 <=> SerialMandatory \subseteq CalledOps
          /\ live => (ENABLED serial_build <=> SerialMandatory \subseteq CalledOps)
          /\ built # None => SerialMandatory \subseteq CalledOps

\* a Linux boot loader built from a chain that starts with command_line and
\* calls one setter twice
C1_Witness ==
    /\ target = "linux"
    /\ built # None
    /\ Len(calls) = 4
    /\ calls[1].op = "command_line"
    /\ calls[4].op = "kernel_url"

\* C2 (as claimed): build() of VZVirtualMachineConfigurationBuilder has
\* returned a configuration only if boot_loader, cpu_count and memory_size
\* were all called on the chain.
C2_ConfBuildNeedsMandatory ==
    (target = "vmconf" /\ built # None) => ConfMandatory \subseteq CalledOps

\* C8 (builders): a fallible constructor returns Err with the platform's
\* error whenever the foreign initializer failed, and Ok only with the
\* non-null, initialised object the initializer returned.
C8_FallibleConstructors ==
    (target \in { "disk", "efi" } /\ built # None) =>
        /\ initArgs.fails =>
              /\ built.tag = "Err"
              /\ built.val = NSErrorObject(initArgs.code)
        /\ built.tag = "Ok" =>
              /\ ~initArgs.fails
              /\ built.val # NIL
              /\ built.val.class = (IF target = "disk"
                                    THEN "VZDiskImageStorageDeviceAttachment"
                                    ELSE "VZEFIVariableStore")
              /\ built.val.URL = initArgs.url

\* the two-mode disk initializer failed and build() returned its error
C8_Witness ==
    /\ target = "disk"
    /\ Present(builder.caching_mode)
    /\ built.tag = "Err"
    /\ initArgs.fails

\* the value of the last read_only call of the chain, true without one
RECURSIVE LastReadOnly(_)
LastReadOnly(cs) ==
    IF cs = << >> THEN TRUE
    ELSE IF cs[Len(cs)].op = "read_only" THEN cs[Len(cs)].arg
    ELSE LastReadOnly(SubSeq(cs, 1, Len(cs) - 1))

\* C10: the read-only flag build() hands to the foreign disk-image
\* initializer is the value of the last read_only call of the chain, and
\* true when read_only was never called; path and the mode setters, before
\* or after, do not change it.
C10_ReadOnlyFlag ==
    (target = "disk" /\ built # None) => initArgs.readOnly = LastReadOnly(calls)

\* read_only(false), then path, then build: the initializer got NO
C10_Witness ==
    /\ target = "disk"
    /\ built # None
    /\ Len(calls) >= 2
    /\ calls[1] = Call("read_only", FALSE)
    /\ calls[2].op = "path"
    /\ initArgs.readOnly = FALSE

\* the argument of the last call of setter op on the chain
RECURSIVE LastArg(_, _)
LastArg(cs, op) ==
    IF cs[Len(cs)].op = op THEN cs[Len(cs)].arg
    ELSE LastArg(SubSeq(cs, 1, Len(cs) - 1), op)

ModeSetters == { "caching_mode", "synchronization_mode" }

\* C11: on the disk-image attachment builder with the path supplied,
\* build() is defined exactly when caching_mode and synchronization_mode
\* were both called or neither was; with exactly one of them called it is
\* not.  The build() of the both-called case hands both modes to the
\* five-argument foreign initializer, the build() of the neither-called
\* case hands no mode to the three-argument one.
C11_DiskBuildModes ==
    target = "disk" =>
        /\ live =>
              (ENABLED disk_build <=>
                  /\ "path" \in CalledOps
                  /\ \/ ModeSetters \subseteq CalledOps
                     \/ ModeSetters \cap CalledOps = {})
        /\ built # None =>
              IF ModeSetters \subseteq CalledOps
              THEN /\ initArgs.sel =
                       "initWithURL:readOnly:cachingMode:synchronizationMode:error:"
                   /\ initArgs.cachingMode = Some(LastArg(calls, "caching_mode"))
                   /\ initArgs.synchronizationMode =
                       Some(LastArg(calls, "synchronization_mode"))
              ELSE /\ ModeSetters \cap CalledOps = {}
                   /\ initArgs.sel = "initWithURL:readOnly:error:"
                   /\ initArgs.cachingMode = Unit
                   /\ initArgs.synchronizationMode = Unit

\* a disk attachment built with the uncached caching mode and the fsync
\* synchronization mode, the synchronization mode set first
C11_Witness ==
    /\ target = "disk"
    /\ built # None
    /\ Len(calls) = 3
    /\ calls[1] = Call("synchronization_mode", 2)
    /\ calls[3] = Call("caching_mode", 1)
    /\ initArgs.cachingMode = Some(1)
    /\ initArgs.synchronizationMode = Some(2)

TypestateTargets == { "linux", "serial", "disk" }

C22_Step ==
    (target \in TypestateTargets /\ Len(calls') = Len(calls) + 1) =>
        LET c == calls'[Len(calls')]
        IN  /\ DOMAIN builder' = DOMAIN builder
            /\ builder'[c.op] = (IF c.op = "read_only" THEN c.arg ELSE Some(c.arg))
            /\ \A f \in DOMAIN builder \ { c.op } : builder'[f] = builder[f]

\* C22: a setter call on the Linux boot loader builder, the serial
\* attachment builder or the disk-image attachment builder returns a
\* builder whose field of that setter holds the value passed, and whose
\* every other field is, present or absent, exactly what the builder held
\* before the call.
C22_SetterChangesOwnField == [][C22_Step]_vars

\* caching_mode called on a disk builder that already holds a path, a
\* read_only of false and a synchronization mode
C22_Witness ==
    /\ target = "disk"
    /\ Len(calls) = 4
    /\ calls[4].op = "caching_mode"
    /\ builder.path = Some(<<"img">>)
    /\ builder.read_only = FALSE
    /\ builder.synchronization_mode = Some(3)
    /\ builder.caching_mode = Some(calls[4].arg)

\* the fields whose type parameter records that the setter was called
TypestateFields ==
    CASE target = "linux"  -> LinuxMandatory
      [] target = "serial" -> SerialMandatory
      [] target = "disk"   -> { "path" } \cup ModeSetters

\* C27: a setter may be called again on the chain and the last call wins:
\* what build() constructs is made from the argument of the most recent
\* call of each field's setter, and a field counts as supplied exactly
\* when its setter was called, once or more often.
C27_LastValueWins ==
    target \in TypestateTargets =>
        /\ \A f \in TypestateFields : Present(builder[f]) <=> f \in CalledOps
        /\ \A f \in TypestateFields \cap CalledOps :
               builder[f] = Some(LastArg(calls, f))
        /\ (target = "linux" /\ built # None) =>
               built.val = VZLinuxBootLoader_new(
                               LastArg(calls, "kernel_url"),
                               LastArg(calls, "initial_ramdisk_url"),
                               LastArg(calls, "command_line"))
        /\ (target = "serial" /\ built # None) =>
               built.val = VZFileHandleSerialPortAttachment_new(
                               LastArg(calls, "file_handle_for_reading"),
                               LastArg(calls, "file_handle_for_writing"))
        /\ (target = "disk" /\ built # None) =>
               initArgs.url = NSURL_file_url_with_path(LastArg(calls, "path"), FALSE)

\* initial_ramdisk_url called twice with different paths before build():
\* the boot loader carries the second
C27_Witness ==
    /\ target = "linux"
    /\ built # None
    /\ Len(calls) = 4
    /\ calls[1] = Call("initial_ramdisk_url", <<"img">>)
    /\ calls[2] = Call("initial_ramdisk_url", <<"/", "img">>)
    /\ built.val.initialRamdiskURL =
           NSURL_absolute_url(NSURL_file_url_with_path(<<"/", "img">>, FALSE))

\* the configuration property each device-list setter of the builder sets
ListOf(op) ==
    CASE op = "entropy_devices"        -> "entropyDevices"
      [] op = "memory_balloon_devices" -> "memoryBalloonDevices"
      [] op = "network_devices"        -> "networkDevices"
      [] op = "serial_ports"           -> "serialPorts"
      [] op = "socket_devices"         -> "socketDevices"
      [] op = "storage_devices"        -> "storageDevices"

DeviceListSetters ==
    { "entropy_devices", "memory_balloon_devices", "network_devices",
      "serial_ports", "socket_devices", "storage_devices" }

C28_Step ==
    (/\ target = "vmconf"
     /\ Len(calls') = Len(calls) + 1
     /\ calls'[Len(calls')].op \in DeviceListSetters) =>
        LET c == calls'[Len(calls')]
        IN  /\ builder'.conf[ListOf(c.op)] = c.arg
            /\ \A f \in DOMAIN builder.conf \ { ListOf(c.op) } :
                   builder'.conf[f] = builder.conf[f]

\* C28: a device-list setter of VZVirtualMachineConfigurationBuilder sets
\* the configuration's list of its category to exactly the devices passed,
\* in the order passed, whatever the list held before (nothing is appended
\* and an empty vector empties it), and leaves the boot loader, the CPU
\* count, the memory size and the lists of the other categories as they
\* were.
C28_DeviceListReplaced == [][C28_Step]_vars

\* storage_devices called with one device and then with none: the list is
\* empty again
C28_Witness ==
    /\ target = "vmconf"
    /\ Len(calls) = 2
    /\ calls[1] = Call("storage_devices", <<"dev1">>)
    /\ calls[2] = Call("storage_devices", << >>)
    /\ builder.conf.storageDevices = << >>

\* the URL of a filesystem path with absolute_url() applied
AbsoluteFileURL(p) == NSURL_absolute_url(NSURL_file_url_with_path(p, FALSE))

\* C15 (as claimed): every file URL handed to a foreign boot loader or
\* disk-image attachment has had absolute_url() applied: the kernel and
\* initial ramdisk URLs of VZLinuxBootLoader::new and the disk image URL of
\* both VZDiskImageStorageDeviceAttachment initializers.
C15_PathsMadeAbsolute ==
    /\ (target = "linux" /\ built # None) =>
          /\ built.val.kernelURL = AbsoluteFileURL(builder.kernel_url[1])
          /\ built.val.initialRamdiskURL = AbsoluteFileURL(builder.initial_ramdisk_url[1])
    /\ (target = "disk" /\ built # None) =>
          initArgs.url = AbsoluteFileURL(builder.path[1])

\* C17: build() takes its builder by value: once build() has returned the
\* builder is gone, no setter and no second build() can be called on it,
\* and what the one build() returned stays the only object made from it.
C17_BuildConsumes ==
    /\ [](built # None => ~live)
    /\ [](target # "none" /\ ~live => ~ENABLED NextBuilders)
    /\ [][built # None => UNCHANGED <<builder, calls, live, initArgs, built>>]_vars

\* a configuration builder consumed by build() after two setter calls
C17_Witness ==
    /\ target = "vmconf"
    /\ Len(calls) = 2
    /\ ~live
    /\ built # None
    /\ built.val = builder.conf

----------------------------------------------------------------------------
(* Properties of the device configurations *)

\* the attachment of the last call that passed one
RECURSIVE LastAttachment(_)
LastAttachment(cs) ==
    IF cs[Len(cs)].op \in { "new", "set_attachment" } THEN cs[Len(cs)].arg
    ELSE LastAttachment(SubSeq(cs, 1, Len(cs) - 1))

\* C23: a VZVirtioNetworkDeviceConfiguration, a
\* VZVirtioConsoleDeviceSerialPortConfiguration, a
\* VZVirtioBlockDeviceConfiguration or a VZUSBMassStorageDeviceConfiguration
\* that its constructor has returned carries an attachment: the one passed
\* to the constructor, or on the network device the one passed to the last
\* set_attachment since; it is never without one, whatever else is set.
C23_DeviceHasAttachment ==
    (target \in DeviceTargets /\ built # None) =>
        /\ built.val.attachment # NIL
        /\ built.val.attachment \in AttachmentsOf(target)
        /\ built.val.attachment = LastAttachment(calls)

\* a network device made with the NAT attachment, its MAC address set,
\* then given the bridged attachment
C23_Witness ==
    /\ target = "network"
    /\ Len(calls) = 3
    /\ calls[1] = Call("new", [class |-> "VZNATNetworkDeviceAttachment"])
    /\ calls[2].op = "set_mac_address"
    /\ calls[3].op = "set_attachment"
    /\ built.val.attachment.class = "VZBridgedNetworkDeviceAttachment"
    /\ built.val.MACAddress = calls[2].arg

----------------------------------------------------------------------------
(* Properties of validation and of the VM lifecycle *)

\* C3 (as claimed): a VZVirtualMachine exists only if validate_with_error
\* has returned Ok on the configuration it was created from.
C3_VMOnlyAfterValidation ==
    vm # None => (validation # None /\ validation.result.tag = "Ok")

RECURSIVE InvokedOf(_, _)
\* how often the handler passed by start call k has been invoked
InvokedOf(ss, k) ==
    IF ss = << >> THEN 0
    ELSE (IF Head(ss).call = k THEN Head(ss).invoked ELSE 0) + InvokedOf(Tail(ss), k)

StartCalls == { starts[i].call : i \in 1..Len(starts) }

\* C4: the completion handler of each start_with_completion_handler call is
\* invoked exactly once: not before the platform has answered the request,
\* never twice, with nil or with an error object, and, the hypervisor and
\* the queue being fair, eventually.
C4_CallbackExactlyOnce ==
    /\ [](\A i \in 1..Len(starts) :
            /\ InvokedOf(starts, starts[i].call) <= 1
            /\ starts[i].invoked > 0 =>
                  /\ starts[i].status = "completed"
                  /\ \/ starts[i].arg = NIL
                     \/ starts[i].arg \in { NSErrorObject(c) : c \in ErrorCodes })
    /\ \A k \in 1..MaxStarts : [](k \in StartCalls => <>(InvokedOf(starts, k) = 1))

\* one handler was invoked with nil and another with an error
C4_Witness ==
    /\ \E i \in 1..Len(starts) : starts[i].invoked = 1 /\ starts[i].arg = NIL
    /\ \E i \in 1..Len(starts) : starts[i].invoked = 1 /\ starts[i].arg # NIL

LifecycleEdges ==
    { <<"Stopped", "Starting">>, <<"Starting", "Running">>,
      <<"Running", "Pausing">>, <<"Pausing", "Paused">>,
      <<"Paused", "Resuming">>, <<"Resuming", "Running">>,
      <<"Running", "Stopped">> }

C5_Step ==
    LET s == state(vmState)
        t == state(vmState')
    IN  s # t =>
          /\ <<s, t>> \in LifecycleEdges \/ t = "Error"
          /\ s # "Error"
          /\ t = "Starting" => starts # << >>

C12_Step ==
    /\ stop' # stop =>
          /\ vmState' = vmState
          /\ stop'.stateBefore = vmState'
    /\ (vmState # StateStopped /\ vmState' = StateStopped) =>
          /\ stop' = stop
          /\ vmState = StateRunning

C7_RejectedStopIsErr ==
    (stop # None /\ ~stop.accepted) =>
        /\ stop.result.tag = "Err"
        /\ stop.result.val = NSErrorObject(stop.code)

\* C9: validate_with_error returns Ok or Err; Ok only for a configuration
\* the platform accepted, and Err with the platform's error whenever the
\* platform reported the configuration invalid.
C9_ValidateOutcome ==
    validation # None =>
        /\ validation.result.tag \in { "Ok", "Err" }
        /\ ~validation.accepted =>
              /\ validation.result.tag = "Err"
              /\ validation.result.val = NSErrorObject(validation.code)
        /\ validation.result.tag = "Ok" =>
              /\ validation.accepted
              /\ validation.result.val = YES

\* a configuration with a boot loader that the platform rejected
C9_Witness ==
    /\ validation # None
    /\ ~validation.accepted
    /\ validation.result.tag = "Err"
    /\ conf # None
    /\ conf.bootLoader # NIL

----------------------------------------------------------------------------
(* Properties of owned handles *)

AliveHandles == { i \in 1..Len(handles) : handles[i].alive }

\* the holders that acquired an ownership unit: by taking over the unit of
\* an allocation or by retaining
OwningHandles == { i \in 1..Len(handles) : handles[i].how # "borrowed" }

RECURSIVE Releases(_)
Releases(hs) == IF hs = << >> THEN 0 ELSE Head(hs).releases + Releases(Tail(hs))

C18_NoOverRelease ==
    /\ \A i \in 1..Len(handles) : i \in OwningHandles
    /\ Releases(handles) <= Cardinality(OwningHandles)
    /\ refcount >= 0

ForeignHolders == { i \in 1..Len(handles) : handles[i].how = "foreign" }

C24_Step ==
    (Cardinality(ForeignHolders') = Cardinality(ForeignHolders) + 1) =>
        /\ refcount' = refcount
        /\ \E i \in RustHandles(handles) :
               /\ handles[i].alive
               /\ ~handles'[i].alive
               /\ handles'[i].releases = 1

\* C24: an object handed by value to a constructor or setter is kept by
\* the foreign object that received it: the wrapper passed in is dropped and
\* released when the call returns, the receiver holds a unit of its own
\* instead, and while any receiver is alive the object has at least as many
\* units as live receivers, so it is not freed, however the remaining
\* wrappers are dropped.
C24_HandedOverStaysAlive ==
    /\ [][C24_Step]_vars
    /\ [](\A i \in ForeignHolders :
              handles[i].alive =>
                  /\ refcount >= 1
                  /\ refcount >= Cardinality(ForeignHolders \cap AliveHandles))

\* an attachment made, handed to a device constructor, and no wrapper of it
\* left: the device holds the only unit
C24_Witness ==
    /\ Len(handles) = 2
    /\ handles[1].how = "new"
    /\ ~handles[1].alive
    /\ handles[2].how = "foreign"
    /\ handles[2].alive
    /\ refcount = 1

\* C25: a clone of a VZVirtualMachine retains the VM: the clone releases
\* once, when it is dropped; the VM keeps a unit for every wrapper, original
\* or clone, still alive, and is freed only when all of them have been
\* dropped; in whatever order they are dropped the releases never exceed
\* the units acquired.
C25_CloneRetains ==
    (handles # << >> /\ handles[1].how = "new") =>
        /\ \A i \in 1..Len(handles) :
               handles[i].how = "clone" =>
                   handles[i].releases = (IF handles[i].alive THEN 0 ELSE 1)
        /\ refcount = Cardinality(AliveHandles)
        /\ refcount = 0 <=> AliveHandles = {}
        /\ Releases(handles) <= Cardinality(OwningHandles)

\* a VM cloned twice, the original and the first clone dropped, the second
\* clone keeping it alive
C25_Witness ==
    /\ Len(handles) = 3
    /\ handles[1].how = "new" /\ ~handles[1].alive
    /\ handles[2].how = "clone" /\ ~handles[2].alive
    /\ handles[3].how = "clone" /\ handles[3].alive
    /\ refcount = 1

----------------------------------------------------------------------------
(* Properties of state() *)

NamedStates ==
    <<"Stopped", "Running", "Paused", "Error", "Starting", "Pausing", "Resuming">>

\* C20: state() is total on the foreign code: 0 is Stopped, 1 Running,
\* 2 Paused, 3 Error, 4 Starting, 5 Pausing, 6 Resuming, each named state
\* the answer for that one code only, and every other code, the negative
\* ones included, is Other.
C20_StateMapping ==
    (query # None /\ query.state # Unit) =>
        LET n == query.code
            r == query.state[1]
        IN  /\ \A k \in 0..6 : (r = NamedStates[k + 1]) <=> (n = k)
            /\ (r = "Other") <=> (n < 0 \/ n > 6)
            /\ r \in { NamedStates[k] : k \in 1..7 } \cup { "Other" }

\* a negative code was read as Other
C20_Witness ==
    /\ query # None
    /\ query.code = 0 - 1
    /\ query.state = Some("Other")

C21_Step ==
    /\ query' # query => UNCHANGED <<vm, vmState, starts, stop>>
    /\ vmState' # vmState =>
          /\ query' = query
          /\ stop' = stop
          /\ Len(starts') = Len(starts)

\* C21: state() and supported() only read: a step of either, however many
\* there are and wherever they fall between the hypervisor's transitions
\* and the start and stop requests, leaves the VM state, the start requests
\* with their completion status and the stop request as they were; and a
\* step that changes the VM state is no call of this layer (no start, no
\* stop request, no read) but a step of the hypervisor.
C21_ReadsAreObservations == [][C21_Step]_vars

\* state() read Running, after which the guest stopped: the read is stale,
\* the start request's handler has run
C21_Witness ==
    /\ query # None
    /\ query.state = Some("Running")
    /\ query.supported = Some(TRUE)
    /\ vmState = StateStopped
    /\ Len(starts) = 1
    /\ starts[1].invoked = 1

----------------------------------------------------------------------------
(* Properties of the error convention *)

\* what a fallible call returns for the error slot and the primary value
\* the foreign call left behind
ByConvention(slot, ret) == IF NSError_code(slot) # 0 THEN Err(slot) ELSE Ok(ret)

\* C19: each fallible call, the two disk-image initializers,
\* VZEFIVariableStore::create, validate_with_error and
\* request_stop_with_error, returns Err with the error of its slot exactly
\* when the slot's code is not 0 after the foreign call, and otherwise Ok
\* with the foreign call's primary return value; a slot the platform did
\* not touch is NSError::nil(), has code 0 and gives Ok.
C19_ErrorConvention ==
    /\ (target \in { "disk", "efi" } /\ built # None) =>
          /\ built = ByConvention(initArgs.slot, initArgs.ret)
          /\ initArgs.slot = NSError_nil => built.tag = "Ok"
    /\ validation # None =>
          /\ validation.result = ByConvention(validation.slot, validation.ret)
          /\ validation.slot = NSError_nil => validation.result.tag = "Ok"
    /\ stop # None =>
          /\ stop.result = ByConvention(stop.slot, stop.ret)
          /\ stop.slot = NSError_nil => stop.result.tag = "Ok"

\* a stop request the platform refused: the slot is still nil and the call
\* returned Ok with the NO it got; before it, validation had returned Err
\* with the error of its slot
C19_Witness ==
    /\ stop # None
    /\ stop.slot = NSError_nil
    /\ stop.ret = NO
    /\ stop.result = Ok(NO)
    /\ validation # None
    /\ NSError_code(validation.slot) # 0
    /\ validation.result = Err(validation.slot)

----------------------------------------------------------------------------
(* Properties of the reference flow *)

\* C13: when VZVirtualMachine::supported() has answered false, main has
\* printed its notice and returned, and has done nothing else: no builder
\* was run, no configuration built or validated, no queue and no VM created,
\* no start request sent.
C13_UnsupportedReturnsAtOnce ==
    (main # None /\ main.isSupported = Some(NO)) =>
        /\ main.pc = "returned"
        /\ main.printed = <<[text |-> "not supported", code |-> 0]>>
        /\ main.events = <<"supported">>
        /\ main.boot_loader = None
        /\ main.block_attachment = None
        /\ main.block = "none"
        /\ conf = None
        /\ validation = None
        /\ vm = None
        /\ starts = << >>

\* the platform answered NO and main has returned
C13_Witness ==
    /\ main # None
    /\ main.isSupported = Some(NO)
    /\ main.pc = "returned"
    /\ main.printed # << >>

InEvents(e) == \E i \in 1..Len(main.events) : main.events[i] = e

\* C14: a start request is sent only if the disk attachment's build() and
\* validate_with_error() both returned Ok.  When either returns Err, main
\* dumps that error and returns: the Err is the last call main made, no VM
\* and no queue is created, no start request is sent.
C14_StartOnlyAfterBothOk ==
    main # None =>
        /\ (starts # << >> \/ InEvents("start_with_completion_handler")) =>
              /\ main.block_attachment.tag = "Ok"
              /\ validation # None
              /\ validation.result.tag = "Ok"
        /\ (main.block_attachment # None /\ main.block_attachment.tag = "Err") =>
              /\ main.pc = "returned"
              /\ main.printed = <<NSError_dump(main.block_attachment.val)>>
              /\ main.events[Len(main.events)] =
                     "VZDiskImageStorageDeviceAttachmentBuilder::build"
              /\ conf = None /\ validation = None /\ vm = None /\ starts = << >>
              /\ main.block = "none"
        /\ (validation # None /\ validation.result.tag = "Err") =>
              /\ main.pc = "returned"
              /\ main.printed = <<NSError_dump(validation.result.val)>>
              /\ main.events[Len(main.events)] = "validate_with_error"
              /\ vm = None /\ starts = << >>
              /\ main.block = "none"

\* the disk attachment was built, the platform rejected the configuration
\* with error code 2, and main has dumped the error and returned
C14_Witness ==
    /\ main # None
    /\ main.pc = "returned"
    /\ main.block_attachment # None
    /\ main.block_attachment.tag = "Ok"
    /\ validation # None
    /\ validation.result = Err(NSErrorObject(2))
    /\ main.printed = <<[text |-> "dump", code |-> 2]>>

\* C26 (as claimed): once validation has succeeded and the start block
\* has been dispatched on the VM's queue, main stays in its sleep loop and
\* the process goes on: at most one start request is ever made (no retry),
\* and a completion handler called with an error has dumped it once while
\* the process keeps running.
C26_DispatchedMainLoops ==
    (main # None /\ main.block # "none") =>
        /\ validation # None
        /\ validation.result.tag = "Ok"
        /\ main.pc = "loop"
        /\ Len(starts) <= 1
        /\ \A i \in 1..Len(starts) :
               starts[i].invoked = 1 =>
                   starts[i].dumped = (IF starts[i].arg # NIL THEN 1 ELSE 0)

----------------------------------------------------------------------------
(* Properties of the text adapter *)

\* the number of bytes of the UTF-8 encoding of a scalar value
ByteLength(c) == IF c < 128 THEN 1 ELSE IF c < 2048 THEN 2 ELSE IF c < 65536 THEN 3 ELSE 4

RECURSIVE ByteLengthOf(_)
ByteLengthOf(s) == IF s = << >> THEN 0 ELSE ByteLength(Head(s)) + ByteLengthOf(Tail(s))

\* C16: for every string s, the empty one included, as_str() of
\* NSString::new(s) is s again, and len() is the number of bytes of s.
C16_TextRoundTrip ==
    (text # None /\ text.ns # None) =>
        /\ text.len # Unit => text.len = Some(ByteLengthOf(text.s))
        /\ text.str # Unit => text.str = Some([tag |-> "Str", val |-> text.s])

\* a string of a four-byte, a two-byte and a one-byte character came back
\* from as_str(), its len() read as 7
C16_Witness ==
    /\ text # None
    /\ text.s = <<128512, 233, 65>>
    /\ text.ns # None
    /\ Len(text.ns.units) = 4
    /\ text.len = Some(7)
    /\ text.str = Some([tag |-> "Str", val |-> <<128512, 233, 65>>])

====
